---------------------------- MODULE Spec2Model ----------------------------
(***************************************************************************)
(* Model of the interval-activation scheduler of osu-js                    *)
(* (src/src/play/game/timeline.ts): the generic Timeline engine, and the   *)
(* AudioObjectTimeline built on it with the payload of                     *)
(* PlayableStoryboardSample.                                               *)
(*                                                                         *)
(* Indices are the 0-based indices of the TypeScript arrays; Elem(i) reads *)
(* this.elements[i].  The JS value `undefined` of the two `declare`d       *)
(* fields is the value Undefined; every comparison with it is false, as    *)
(* in JS (undefined converts to NaN).                                      *)
(***************************************************************************)
EXTENDS Integers, Sequences, FiniteSets, TLC

(* ------------------------------ bounds --------------------------------- *)
\* times of the generic engine are 0..MaxTime
MaxTime == 2
\* at most this many descriptors in a timeline
MaxElements == 2
\* at most this many update calls in a run
MaxCalls == 2

Times == 0..MaxTime

VARIABLES
  elements,               \* Timeline.elements, sorted by startTimeMs
  allowSkippingElements,  \* Timeline.allowSkippingElements
  activeElements,         \* keys of Timeline.activeElements, in insertion order
  lastTimeMs,             \* Timeline.lastTimeMs
  nextElementIndex,       \* Timeline.nextElementIndex
  callLog,                \* hook invocations of the last update call, in order
  callTime,               \* timeMs of the last update call
  callForward,            \* forward of the last update call
  prevTime,               \* timeMs of the update call before the last
  nCalls,                 \* number of update calls so far
  created,                \* per index: createElement invocations so far
  destroyed,              \* per index: destroyElement invocations so far
  bypassed,               \* indices the scan has passed without building
  forwardRun,             \* every call so far was forward, times non-decreasing
  backwardRun,            \* every call so far was backward, times non-increasing,
                          \* the first at the largest endTimeMs
  onScript,               \* the calls so far are a prefix of Script
  activeBefore,           \* keys of activeElements before the last update call
  cursorBefore,           \* nextElementIndex before the last update call
  resynced,               \* the last update call ran the binary search
  scanStart,              \* the cursor at which the scan of the last call began
  threw,                  \* the last update call ended in a TypeError
  samples,                \* per index: the StoryboardSample of the descriptor
  audioLastTimeMs,        \* AudioObjectTimeline.lastTimeMs
  voiceState,             \* per index: the voice leased by the entry's payload
  voiceVolume,            \* per index: the volume of that voice, in 1/10000
  soundRate,              \* per sound handle: its playback rate
  wasPlaying,             \* indices whose voice was playing before the last operation
  voiceLog,               \* voice commands of the last audio operation, in order
  lastOp,                 \* the last audio operation and its argument
  pauseHeld,              \* pause() was called and play() was not since
  tickerAttached,         \* StandardGame.tick is registered with app.ticker
  hitObjects,             \* CursorAutoplay.hitObjects
  nextHitObjectIndex,     \* CursorAutoplay.nextHitObjectIndex
  cursorResult,           \* outcome of the last getCursorState call
  wallClockMs,            \* Date.now()
  documentHidden,         \* the tab is hidden: no animation frames are run
  startTimeMs,            \* StandardGame.startTimeMs
  endTimeMs,              \* StandardGame.endTimeMs
  timeElapsedMs,          \* StandardGame.timeElapsedMs, the clock of the game
  lastTimeElapsedMs,      \* StandardGame.lastTimeElapsedMs
  unfocusedTimeMs,        \* StandardGame.unfocusedTimeMs, Undefined for null
  isPaused,               \* StandardGame.isPaused
  isAudioStarted,         \* StandardGame.isAudioStarted
  audioDurationMs,        \* audio.duration() * 1000
  audioState,             \* the voice of StandardGame.audio
  audioSeekMs,            \* audio.seek() * 1000
  pendingSeeks,           \* setTimeout callbacks of play() not yet run
  componentTimeMs,        \* the time the components last got by update or seek
  componentOp,            \* the last operation forwarded to the storyboard
  gameOp,                 \* the last operation of the game
  nGameOps,               \* number of game operations other than frames
  clockBefore,            \* timeElapsedMs before the last operation
  pausedBefore,           \* isPaused before the last operation
  tickGain,               \* what the last tick added to timeElapsedMs
  tickAllowance,          \* wall-clock time at which the game was not paused
                          \* between the tick before the last and the last
  unpausedWallMs          \* the same, since the last tick

engineVars == <<elements, allowSkippingElements, activeElements, lastTimeMs,
                nextElementIndex>>
historyVars == <<callLog, callTime, callForward, prevTime, nCalls, created,
                 destroyed, bypassed, forwardRun, backwardRun, onScript,
                 activeBefore, cursorBefore, resynced, scanStart, threw>>
audioVars == <<samples, audioLastTimeMs, voiceState, voiceVolume, soundRate,
               wasPlaying, voiceLog, lastOp, pauseHeld>>
gameVars == <<tickerAttached, hitObjects, nextHitObjectIndex, cursorResult>>
clockVars == <<wallClockMs, documentHidden, startTimeMs, endTimeMs, timeElapsedMs,
               lastTimeElapsedMs, unfocusedTimeMs, isPaused, isAudioStarted,
               audioDurationMs, audioState, audioSeekMs, pendingSeeks,
               componentTimeMs, componentOp, gameOp, nGameOps, clockBefore,
               pausedBefore, tickGain, tickAllowance, unpausedWallMs>>
vars == <<engineVars, historyVars, audioVars, gameVars, clockVars>>

(* --------------------------- JS primitives ----------------------------- *)
\* the value of a `declare`d field that was never assigned
Undefined == -1000

Lt(a, b) == a # Undefined /\ b # Undefined /\ a < b
Gt(a, b) == a # Undefined /\ b # Undefined /\ a > b
Ge(a, b) == a # Undefined /\ b # Undefined /\ a >= b
Le(a, b) == a # Undefined /\ b # Undefined /\ a <= b

Range(s) == {s[k] : k \in 1..Len(s)}

\* this.elements[i]; exists only for 0 <= i < length
Length == Len(elements)
Exists(i) == i # Undefined /\ i >= 0 /\ i < Length
Elem(i) == elements[i + 1]
StartOf(i) == IF Exists(i) THEN Elem(i).startTimeMs ELSE Undefined
EndOf(i) == IF Exists(i) THEN Elem(i).endTimeMs ELSE Undefined
Indices == 0..(Length - 1)

(* ---------------------- BinarySearch.findIndex ------------------------- *)
\* the predicate handed to findIndex by setInitialElementIndex
SearchPredicate(i, timeMs, forward) ==
  IF forward THEN timeMs < Elem(i).endTimeMs
             ELSE timeMs > Elem(i).startTimeMs

\* BinarySearch.findIndex of osu-classes (imported at line 2), the bisection
\* the library runs:
\*   l = -1; r = length - 1;
\*   while (1 + l < r) { mid = l + ((r - l) >> 1); pred(mid) ? r = mid : l = mid }
\*   return r
\* It returns -1 only for an empty array, and never tests the last element.
RECURSIVE Bisect(_, _, _, _)
Bisect(l, r, timeMs, forward) ==
  IF 1 + l < r
    THEN LET mid == l + ((r - l) \div 2)
         IN  IF SearchPredicate(mid, timeMs, forward)
               THEN Bisect(l, mid, timeMs, forward)
               ELSE Bisect(mid, r, timeMs, forward)
    ELSE r

FindIndex(timeMs, forward) == Bisect(-1, Length - 1, timeMs, forward)

(* ------------------------------ Timeline ------------------------------- *)
\* update, line 64: this.nextElementIndex ??= (forward ? 0 : length - 1)
DefaultIndex(idx, forward) ==
  IF idx = Undefined THEN (IF forward THEN 0 ELSE Length - 1) ELSE idx

IsSeekingBackwards(timeMs, forward, last) ==
  IF forward THEN Lt(timeMs, last) ELSE Gt(timeMs, last)

IsSeekingForward(idx, timeMs, forward) ==
  IF forward THEN Ge(timeMs, EndOf(idx)) ELSE Le(timeMs, StartOf(idx))

\* a staleness test that forgets isSeekingForward
IsStaleIgnoringBracket(idx, timeMs, forward, last) ==
  IsSeekingBackwards(timeMs, forward, last) \/ ~Exists(idx)

\* whether setInitialElementIndex recomputes the cursor
IsStale(idx, timeMs, forward, last) ==
  ~(~IsSeekingBackwards(timeMs, forward, last)
    /\ ~IsSeekingForward(idx, timeMs, forward)
    /\ Exists(idx))

\* a resynchronization without the `found >= 0 ? found : 0` of line 120
SetInitialElementIndexUnclamped(idx, timeMs, forward, last) ==
  IF ~IsStale(idx, timeMs, forward, last)
    THEN idx
    ELSE FindIndex(timeMs, forward)

SetInitialElementIndex(idx, timeMs, forward, last) ==
  IF ~IsStale(idx, timeMs, forward, last)
    THEN idx
    ELSE LET found == FindIndex(timeMs, forward)
         IN  IF forward THEN (IF found >= 0 THEN found ELSE 0) ELSE found

ScanCrosses(idx, timeMs, forward) ==
  IF forward THEN timeMs > Elem(idx).startTimeMs
             ELSE timeMs < Elem(idx).endTimeMs

ShouldAddNextElement(idx, timeMs, forward) ==
  LET elementExists == IF forward THEN idx < Length ELSE idx >= 0
  IN  IF ~elementExists THEN FALSE ELSE ScanCrosses(idx, timeMs, forward)

\* shouldAddNextElement, lines 124-132: the existence test lets the index
\* through and this.elements[index] is undefined, so reading its startTimeMs
\* or endTimeMs throws a TypeError
Throws(idx, forward) ==
  (IF forward THEN idx < Length ELSE idx >= 0) /\ ~Exists(idx)

SetNextElementIndex(idx, forward) == idx + (IF forward THEN 1 ELSE -1)

HasEnded(idx, timeMs) == timeMs >= Elem(idx).endTimeMs

\* a build condition that forgets the elapsed test of line 72
ShouldBuildIgnoringEnd(idx, timeMs, active) ==
  ~allowSkippingElements \/ idx \notin Range(active)

\* a build condition that forgets the isActive test of line 73
ShouldBuildIgnoringActive(idx, timeMs, active) ==
  ~allowSkippingElements \/ ~HasEnded(idx, timeMs)

\* a build condition that skips whatever allowSkippingElements says
ShouldBuildAlwaysSkipping(idx, timeMs, active) ==
  ~HasEnded(idx, timeMs) /\ idx \notin Range(active)

\* update, line 75: the condition under which the scan builds the payload
ShouldBuild(idx, timeMs, active) ==
  ~allowSkippingElements \/ (~HasEnded(idx, timeMs) /\ idx \notin Range(active))

Event(op, idx) == [op |-> op, index |-> idx]

\* Map.set: a new key goes last, an existing key keeps its place
MapSet(active, idx) ==
  IF idx \in Range(active) THEN active ELSE Append(active, idx)

\* update, lines 66-85: the scan loop from cursor idx
RECURSIVE Scan(_, _, _, _, _, _)
Scan(idx, timeMs, forward, active, log, skipped) ==
  IF Throws(idx, forward)
    THEN [next |-> idx, active |-> active, log |-> log, skipped |-> skipped,
          threw |-> TRUE]
  ELSE IF ~ShouldAddNextElement(idx, timeMs, forward)
    THEN [next |-> idx, active |-> active, log |-> log, skipped |-> skipped,
          threw |-> FALSE]
    ELSE IF ShouldBuild(idx, timeMs, active)
      THEN Scan(SetNextElementIndex(idx, forward), timeMs, forward,
                MapSet(active, idx), Append(log, Event("create", idx)), skipped)
      ELSE Scan(SetNextElementIndex(idx, forward), timeMs, forward,
                active, log, skipped \cup {idx})

\* a containment test that forgets the end of the window
ContainsFromStart(idx, timeMs) == timeMs >= Elem(idx).startTimeMs

\* a containment test that forgets the start of the window
ContainsUntilEnd(idx, timeMs) == timeMs < Elem(idx).endTimeMs

\* update, line 88: the containment test of the reconciliation
Contains(idx, timeMs) ==
  timeMs >= Elem(idx).startTimeMs /\ timeMs < Elem(idx).endTimeMs

\* update, lines 87-94: the reconciliation over the active map, in map order
RECURSIVE Reconcile(_, _, _, _)
Reconcile(todo, timeMs, kept, log) ==
  IF todo = <<>>
    THEN [active |-> kept, log |-> log]
    ELSE LET idx == Head(todo)
         IN  IF Contains(idx, timeMs)
               THEN Reconcile(Tail(todo), timeMs, Append(kept, idx),
                              Append(log, Event("update", idx)))
               ELSE Reconcile(Tail(todo), timeMs, kept,
                              Append(log, Event("destroy", idx)))

\* an update that reconciles the active map before it scans
UpdateReconcilingFirst(timeMs, forward) ==
  LET idx0 == DefaultIndex(nextElementIndex, forward)
      idx1 == SetInitialElementIndex(idx0, timeMs, forward, lastTimeMs)
      rec  == Reconcile(activeElements, timeMs, <<>>, <<>>)
      scan == Scan(idx1, timeMs, forward, rec.active, rec.log, {})
  IN  [next |-> scan.next, active |-> scan.active, log |-> scan.log,
       skipped |-> scan.skipped, stale |-> IsStale(idx0, timeMs, forward, lastTimeMs),
       start |-> idx1, threw |-> scan.threw]

\* the whole of Timeline.update(timeMs, forward), as a function of the state
UpdateResult(timeMs, forward) ==
  LET idx0 == DefaultIndex(nextElementIndex, forward)
      idx1 == SetInitialElementIndex(idx0, timeMs, forward, lastTimeMs)
      scan == Scan(idx1, timeMs, forward, activeElements, <<>>, {})
      \* a scan that throws leaves update before the second loop
      rec  == IF scan.threw THEN [active |-> scan.active, log |-> scan.log]
                            ELSE Reconcile(scan.active, timeMs, <<>>, scan.log)
  IN  [next |-> scan.next, active |-> rec.active, log |-> rec.log,
       skipped |-> scan.skipped, stale |-> IsStale(idx0, timeMs, forward, lastTimeMs),
       start |-> idx1, threw |-> scan.threw]

CountOf(log, op, idx) ==
  Cardinality({k \in 1..Len(log) : log[k] = Event(op, idx)})

\* the calls of the concrete scenario: A[0,1000) B[500,1500) C[2000,3000)
ScenarioElements ==
  << [startTimeMs |-> 0, endTimeMs |-> 1000],
     [startTimeMs |-> 500, endTimeMs |-> 1500],
     [startTimeMs |-> 2000, endTimeMs |-> 3000] >>

Script ==
  << <<0, TRUE>>, <<600, TRUE>>, <<1000, TRUE>>, <<1600, TRUE>>,
     <<2000, TRUE>>, <<300, FALSE>> >>

MaxEnd == IF Length = 0 THEN 0
          ELSE CHOOSE m \in {EndOf(i) : i \in Indices} :
                 \A i \in Indices : EndOf(i) <= m

\* Timeline.update(timeMs, forward) with the bookkeeping of the run
TimelineUpdate(timeMs, forward) ==
  LET res == UpdateResult(timeMs, forward)
  IN  /\ nextElementIndex' = res.next
      /\ activeElements' = res.active
      /\ lastTimeMs' = (IF res.threw THEN lastTimeMs ELSE timeMs)
      /\ threw' = res.threw
      /\ callLog' = res.log
      /\ callTime' = timeMs
      /\ callForward' = forward
      /\ prevTime' = callTime
      /\ nCalls' = nCalls + 1
      /\ created' = [i \in Indices |-> created[i] + CountOf(res.log, "create", i)]
      /\ destroyed' = [i \in Indices |-> destroyed[i] + CountOf(res.log, "destroy", i)]
      /\ bypassed' = bypassed \cup res.skipped
      /\ forwardRun' = (forwardRun /\ forward
                          /\ (nCalls = 0 \/ timeMs >= callTime))
      /\ backwardRun' = (backwardRun /\ ~forward
                          /\ IF nCalls = 0 THEN timeMs = MaxEnd
                                           ELSE timeMs <= callTime)
      /\ onScript' = (onScript /\ nCalls < Len(Script)
                        /\ Script[nCalls + 1] = <<timeMs, forward>>)
      /\ activeBefore' = Range(activeElements)
      /\ cursorBefore' = nextElementIndex
      /\ resynced' = res.stale
      /\ scanStart' = res.start
      /\ UNCHANGED <<elements, allowSkippingElements>>

(* ------------------------- generic engine run -------------------------- *)
Descriptors == {[startTimeMs |-> s, endTimeMs |-> e] : s \in Times, e \in Times}

WellFormed(d) == d.startTimeMs <= d.endTimeMs

SortedByStart(s) ==
  \A k \in 1..(Len(s) - 1) : s[k].startTimeMs <= s[k + 1].startTimeMs

\* the descriptor lists a constructed Timeline can hold (constructor, 53-55)
ElementLists ==
  UNION {{s \in [1..n -> {d \in Descriptors : WellFormed(d)}] : SortedByStart(s)}
           : n \in 0..MaxElements}

InitEngine(els, skip) ==
  /\ elements = els
  /\ allowSkippingElements = skip
  /\ activeElements = <<>>
  /\ lastTimeMs = Undefined
  /\ nextElementIndex = Undefined
  /\ callLog = <<>>
  /\ callTime = Undefined
  /\ callForward = TRUE
  /\ prevTime = Undefined
  /\ nCalls = 0
  /\ created = [i \in 0..(Len(els) - 1) |-> 0]
  /\ destroyed = [i \in 0..(Len(els) - 1) |-> 0]
  /\ bypassed = {}
  /\ forwardRun = TRUE
  /\ backwardRun = TRUE
  /\ onScript = TRUE
  /\ activeBefore = {}
  /\ cursorBefore = Undefined
  /\ resynced = FALSE
  /\ scanStart = Undefined
  /\ threw = FALSE

\* a Timeline that is not wrapped by an AudioObjectTimeline
NoAudio ==
  /\ samples = <<>>
  /\ audioLastTimeMs = 0
  /\ voiceState = <<>>
  /\ voiceVolume = <<>>
  /\ soundRate = <<>>
  /\ wasPlaying = {}
  /\ voiceLog = <<>>
  /\ lastOp = [op |-> "new", arg |-> 0]
  /\ pauseHeld = FALSE

\* the outcome of a getCursorState call: "state" when it returned a cursor
\* state, "error" when it threw; branch is the return statement taken, current
\* the index of currentHitObject, warned whether console.warn was called,
\* endTime the value of currentEndTime
CursorOutcome(outcome, branch, current, warned, endTime, expanded) ==
  [outcome |-> outcome, branch |-> branch, current |-> current,
   warned |-> warned, endTime |-> endTime, expanded |-> expanded]

CursorIdle == CursorOutcome("none", "none", Undefined, FALSE, Undefined, FALSE)

\* no hit objects: a CursorAutoplay that is never asked for its state
NoCursor ==
  /\ hitObjects = <<>>
  /\ nextHitObjectIndex = 0
  /\ cursorResult = CursorIdle

\* no StandardGame clock is run
NoClock ==
  /\ wallClockMs = 0
  /\ documentHidden = FALSE
  /\ startTimeMs = 0
  /\ endTimeMs = 0
  /\ timeElapsedMs = 0
  /\ lastTimeElapsedMs = Undefined
  /\ unfocusedTimeMs = Undefined
  /\ isPaused = FALSE
  /\ isAudioStarted = FALSE
  /\ audioDurationMs = 0
  /\ audioState = "stopped"
  /\ audioSeekMs = 0
  /\ pendingSeeks = 0
  /\ componentTimeMs = Undefined
  /\ componentOp = "none"
  /\ gameOp = "new"
  /\ nGameOps = 0
  /\ clockBefore = Undefined
  /\ pausedBefore = FALSE
  /\ tickGain = 0
  /\ tickAllowance = 0
  /\ unpausedWallMs = 0

\* a Timeline that is not owned by a StandardGame
NoGame ==
  /\ tickerAttached = FALSE
  /\ NoCursor
  /\ NoClock

Init ==
  /\ \E els \in ElementLists, skip \in BOOLEAN : InitEngine(els, skip)
  /\ NoAudio
  /\ NoGame

Update ==
  /\ nCalls < MaxCalls
  /\ \E timeMs \in Times, forward \in BOOLEAN : TimelineUpdate(timeMs, forward)
  /\ UNCHANGED <<audioVars, gameVars, clockVars>>

Next == Update

Spec == Init /\ [][Next]_vars

(* --------------------- run on any descriptor list ---------------------- *)
\* the constructor copies and sorts the list it is given and tests nothing
\* else: every list sorted by startTimeMs is the list of some Timeline
ConstructedLists ==
  UNION {{s \in [1..n -> Descriptors] : SortedByStart(s)} : n \in 0..MaxElements}

InitConstructed ==
  /\ \E els \in ConstructedLists, skip \in BOOLEAN : InitEngine(els, skip)
  /\ NoAudio
  /\ NoGame

SpecConstructed == InitConstructed /\ [][Next]_vars

(* ------------------- run on lists of four descriptors ------------------ *)
\* with SearchElements descriptors the bisection has indices it never tests
SearchElements == 4

SearchLists ==
  {s \in [1..SearchElements -> {d \in Descriptors : WellFormed(d)}] : SortedByStart(s)}

InitSearch ==
  /\ \E els \in SearchLists, skip \in BOOLEAN : InitEngine(els, skip)
  /\ NoAudio
  /\ NoGame

SpecSearch == InitSearch /\ [][Next]_vars

(* -------------------------- concrete scenario -------------------------- *)
InitScenario ==
  /\ \E skip \in BOOLEAN : InitEngine(ScenarioElements, skip)
  /\ NoAudio
  /\ NoGame

\* update with any of the scenario's calls, in any order
ScenarioUpdate ==
  /\ nCalls < Len(Script)
  /\ \E k \in 1..Len(Script) : TimelineUpdate(Script[k][1], Script[k][2])
  /\ UNCHANGED <<audioVars, gameVars, clockVars>>

NextScenario == ScenarioUpdate

SpecScenario == InitScenario /\ [][NextScenario]_vars

(* ------------------------- AudioObjectTimeline ------------------------- *)
\* audio times are multiples of TimeStepMs up to MaxAudioTick * TimeStepMs
TimeStepMs == 10
MaxAudioTick == 4
\* at most this many samples in an audio timeline
MaxAudioElements == 2
\* at most this many operations on an audio timeline in a run
MaxAudioCalls == 3
\* natural durations of the two sound handles, and window lengths, in steps
ShortSoundTicks == 2
LongSoundTicks == 8
\* samples start at up to MaxStartTick steps, with windows of up to
\* MaxWindowTicks steps
MaxStartTick == 2
MaxWindowTicks == 2

\* seek, line 235: the drift tolerance
SeekToleranceMs == 20

AudioTimes == {TimeStepMs * k : k \in 0..MaxAudioTick}

\* the keys of the samples map handed to PlayableStoryboardSample; a sample
\* whose filePath is "none" finds no sound
Sounds == {"short", "long"}
FilePaths == Sounds \cup {"none"}
SampleVolumes == {50, 100}
Rates == {2}
Volumes == {50}

\* sound.duration(soundId) * 1000
SoundDurationMs(f) ==
  TimeStepMs * (IF f = "short" THEN ShortSoundTicks ELSE LongSoundTicks)

SampleOf(i) == samples[i + 1]
HasSound(i) == SampleOf(i).filePath # "none"

\* howler: Howl.play(id) resumes a paused voice and restarts a stopped one
HowlPlay(st) == IF st \in {"paused", "stopped"} THEN "playing" ELSE st
\* howler: Howl.pause(id) suspends a playing voice
HowlPause(st) == IF st = "playing" THEN "paused" ELSE st
\* howler: Howl.stop(id)
HowlStop(st) == "stopped"

Cmd(cmd, idx, arg) == [cmd |-> cmd, index |-> idx, arg |-> arg]

\* an iteration that takes every active entry to hold a sound
SoundingUnguarded(active) == active

\* the active entries that hold a sound, in map order
RECURSIVE Sounding(_)
Sounding(active) ==
  IF active = <<>> THEN <<>>
  ELSE IF HasSound(Head(active))
         THEN <<Head(active)>> \o Sounding(Tail(active))
         ELSE Sounding(Tail(active))

\* PlayableStoryboardSample constructor: the voice state and volume of a
\* payload just built
BuiltState(i) == IF HasSound(i) THEN "playing" ELSE "none"
BuiltVolume(i) == IF HasSound(i) THEN SampleOf(i).volume * 100 ELSE 0

\* AudioObjectTimeline.destroyElement
DestroyedState(i, st) == IF HasSound(i) THEN HowlStop(st) ELSE st

\* the voice of index i after the hook invocations of log, in order
RECURSIVE VoiceAfter(_, _, _)
VoiceAfter(i, st, log) ==
  IF log = <<>> THEN st
  ELSE LET e == Head(log)
       IN  VoiceAfter(i,
             IF e.index # i THEN st
             ELSE IF e.op = "create" THEN BuiltState(i)
             ELSE IF e.op = "destroy" THEN DestroyedState(i, st)
             ELSE st,
             Tail(log))

\* the voice commands (play on build, stop on destroy) of an update call
RECURSIVE UpdateCmds(_)
UpdateCmds(log) ==
  IF log = <<>> THEN <<>>
  ELSE LET e == Head(log)
       IN  (IF e.op = "create" /\ HasSound(e.index)
              THEN <<Cmd("play", e.index, 0), Cmd("volume", e.index, BuiltVolume(e.index))>>
            ELSE IF e.op = "destroy" /\ HasSound(e.index)
              THEN <<Cmd("stop", e.index, 0)>>
            ELSE <<>>) \o UpdateCmds(Tail(log))

Playing == {i \in Indices : voiceState[i + 1] = "playing"}

\* AudioObjectTimeline.update(timeMs)
AudioUpdate ==
  /\ tickerAttached
  /\ nCalls < MaxAudioCalls
  /\ \E timeMs \in AudioTimes :
       LET log == UpdateResult(timeMs, TRUE).log
       IN  /\ TimelineUpdate(timeMs, TRUE)
           /\ audioLastTimeMs' = timeMs
           /\ voiceState' = [k \in 1..Length |-> VoiceAfter(k - 1, voiceState[k], log)]
           /\ voiceVolume' = [k \in 1..Length |->
                IF CountOf(log, "create", k - 1) > 0
                  THEN BuiltVolume(k - 1) ELSE voiceVolume[k]]
           /\ voiceLog' = UpdateCmds(log)
           /\ lastOp' = [op |-> "update", arg |-> timeMs]
  /\ wasPlaying' = Playing
  /\ UNCHANGED <<samples, soundRate, pauseHeld, gameVars, clockVars>>

\* a seek that records its time as the last observed time
LastTimeRecordingSeek(op, arg) == IF op = "seek" THEN arg ELSE audioLastTimeMs

\* AudioObjectTimeline.lastTimeMs after play, pause, seek, rate or volume:
\* only update assigns it (line 202)
LastTimeAfter(op, arg) == audioLastTimeMs

\* the bookkeeping of an operation that is not update
Broadcast(op, arg) ==
  /\ nCalls < MaxAudioCalls
  /\ nCalls' = nCalls + 1
  /\ lastOp' = [op |-> op, arg |-> arg]
  /\ pauseHeld' = (IF op = "pause" THEN TRUE
                  ELSE IF op = "play" THEN FALSE
                  ELSE pauseHeld)
  /\ wasPlaying' = Playing
  /\ audioLastTimeMs' = LastTimeAfter(op, arg)
  /\ forwardRun' = FALSE
  /\ backwardRun' = FALSE
  /\ onScript' = FALSE
  /\ UNCHANGED <<engineVars, callLog, callTime, callForward, prevTime, created,
                 destroyed, bypassed, activeBefore, cursorBefore, resynced,
                 scanStart, threw, samples, hitObjects,
                 nextHitObjectIndex, cursorResult, clockVars>>

\* AudioObjectTimeline.play()
AudioPlay ==
  /\ Broadcast("play", 0)
  /\ voiceState' = [k \in 1..Length |->
       IF (k - 1) \in Range(Sounding(activeElements))
         THEN HowlPlay(voiceState[k]) ELSE voiceState[k]]
  /\ voiceLog' = [k \in 1..Len(Sounding(activeElements)) |->
       Cmd("play", Sounding(activeElements)[k], 0)]
  /\ UNCHANGED <<voiceVolume, soundRate, tickerAttached>>

\* AudioObjectTimeline.pause()
AudioPause ==
  /\ Broadcast("pause", 0)
  /\ voiceState' = [k \in 1..Length |->
       IF (k - 1) \in Range(Sounding(activeElements))
         THEN HowlPause(voiceState[k]) ELSE voiceState[k]]
  /\ voiceLog' = [k \in 1..Len(Sounding(activeElements)) |->
       Cmd("pause", Sounding(activeElements)[k], 0)]
  /\ UNCHANGED <<voiceVolume, soundRate, tickerAttached>>

Abs(x) == IF x < 0 THEN -x ELSE x

\* seek, lines 223-226
SeekTimeMs(i, timeMs) ==
  (timeMs - SampleOf(i).startTime) + (timeMs - audioLastTimeMs)

\* seek, lines 228-229
SampleEndTimeMs(i) == SampleOf(i).startTime + SoundDurationMs(SampleOf(i).filePath)

\* seek, line 233
SeekOutOfBounds(i, timeMs) ==
  SeekTimeMs(i, timeMs) < 0 \/ SeekTimeMs(i, timeMs) >= SampleEndTimeMs(i)

\* seek, line 235
SeekExceedsTolerance(timeMs) == Abs(timeMs - audioLastTimeMs) > SeekToleranceMs

\* seek, lines 231-237: the commands issued to the voice of entry i
SeekCmds(i, timeMs) ==
  <<Cmd("seek", i, SeekTimeMs(i, timeMs))>>
  \o (IF SeekOutOfBounds(i, timeMs)
        THEN (IF voiceState[i + 1] = "playing" THEN <<Cmd("stop", i, 0)>> ELSE <<>>)
      ELSE IF SeekExceedsTolerance(timeMs)
        THEN <<Cmd("seek", i, SeekTimeMs(i, timeMs))>>
      ELSE <<>>)

RECURSIVE SeekAll(_, _)
SeekAll(todo, timeMs) ==
  IF todo = <<>> THEN <<>>
  ELSE SeekCmds(Head(todo), timeMs) \o SeekAll(Tail(todo), timeMs)

Issued(log, cmd, idx) ==
  Cardinality({k \in 1..Len(log) : log[k].cmd = cmd /\ log[k].index = idx})

\* AudioObjectTimeline.seek(timeMs)
AudioSeek ==
  \E timeMs \in AudioTimes :
    LET cmds == SeekAll(Sounding(activeElements), timeMs)
    IN  /\ Broadcast("seek", timeMs)
        /\ voiceLog' = cmds
        /\ voiceState' = [k \in 1..Length |->
             IF Issued(cmds, "stop", k - 1) > 0
               THEN HowlStop(voiceState[k]) ELSE voiceState[k]]
        /\ UNCHANGED <<voiceVolume, soundRate, tickerAttached>>

\* AudioObjectTimeline.rate(rate): sound.rate(rate) without an id sets the
\* rate of the sound handle
AudioRate ==
  \E rate \in Rates :
    /\ Broadcast("rate", rate)
    /\ soundRate' = [f \in Sounds |->
         IF \E i \in Range(Sounding(activeElements)) : SampleOf(i).filePath = f
           THEN rate ELSE soundRate[f]]
    /\ voiceLog' = [k \in 1..Len(Sounding(activeElements)) |->
         Cmd("rate", Sounding(activeElements)[k], rate)]
    /\ UNCHANGED <<voiceState, voiceVolume, tickerAttached>>

\* howler: Howl.volume(vol) without an id sets the volume of every voice of
\* the sound handle
HowlVolumeAll(vols, f, vol) ==
  [k \in 1..Length |->
     IF SampleOf(k - 1).filePath = f /\ voiceState[k] # "none"
       THEN vol ELSE vols[k]]

\* volume, lines 248-250: over the active entries, in map order
RECURSIVE VolumeAll(_, _, _)
VolumeAll(todo, volume, vols) ==
  IF todo = <<>> THEN vols
  ELSE LET i == Head(todo)
       IN  VolumeAll(Tail(todo), volume,
             HowlVolumeAll(vols, SampleOf(i).filePath, SampleOf(i).volume * volume))

\* AudioObjectTimeline.volume(volume)
AudioVolume ==
  \E volume \in Volumes :
    /\ Broadcast("volume", volume)
    /\ voiceVolume' = VolumeAll(Sounding(activeElements), volume, voiceVolume)
    /\ voiceLog' = [k \in 1..Len(Sounding(activeElements)) |->
         Cmd("volume", Sounding(activeElements)[k],
             SampleOf(Sounding(activeElements)[k]).volume * volume)]
    /\ UNCHANGED <<voiceState, soundRate, tickerAttached>>

\* StandardGame.destroy(options): Container.destroy releases the display
\* tree of the game and the tick is taken off the ticker, so no update
\* follows; nothing is called on the timelines, which have no teardown
\* operation of their own
GameDestroy ==
  /\ tickerAttached
  /\ Broadcast("destroy", 0)
  /\ tickerAttached' = FALSE
  /\ voiceLog' = <<>>
  /\ UNCHANGED <<voiceState, voiceVolume, soundRate>>

\* the samples of an audio timeline: each with a window that starts at the
\* sample's startTime
AudioSamples ==
  {[startTime |-> TimeStepMs * s, window |-> TimeStepMs * w, filePath |-> f, volume |-> v] :
     s \in 0..MaxStartTick, w \in 1..MaxWindowTicks, f \in FilePaths, v \in SampleVolumes}

\* samples on the long sound or on no sound, with any window up to MaxTime
AudioSamplesOfAnyWindow ==
  {[startTime |-> TimeStepMs * s, window |-> TimeStepMs * w, filePath |-> f, volume |-> 100] :
     s \in Times, w \in Times, f \in {"long", "none"}}

AudioSampleLists ==
  UNION {{s \in [1..n -> AudioSamples] :
            \A k \in 1..(n - 1) : s[k].startTime <= s[k + 1].startTime}
           : n \in 1..MaxAudioElements}

\* AudioObjectTimeline constructor: a Timeline with skip-bypass enabled and
\* only destroyElement wired
InitAudioOf(smp) ==
    /\ InitEngine([k \in 1..Len(smp) |->
                     [startTimeMs |-> smp[k].startTime,
                      endTimeMs |-> smp[k].startTime + smp[k].window]], TRUE)
    /\ samples = smp
    /\ audioLastTimeMs = 0
    /\ voiceState = [k \in 1..Len(smp) |-> "none"]
    /\ voiceVolume = [k \in 1..Len(smp) |-> 0]
    /\ soundRate = [f \in Sounds |-> 1]
    /\ wasPlaying = {}
    /\ voiceLog = <<>>
    /\ lastOp = [op |-> "new", arg |-> 0]
    /\ pauseHeld = FALSE
    /\ tickerAttached = TRUE
    /\ NoCursor
    /\ NoClock

InitAudio == \E smp \in AudioSampleLists : InitAudioOf(smp)

NextAudio ==
  \/ AudioUpdate
  \/ AudioPlay
  \/ AudioPause
  \/ AudioSeek
  \/ AudioRate
  \/ AudioVolume
  \/ GameDestroy

SpecAudio == InitAudio /\ [][NextAudio]_vars

(* ---------------------- short audio timeline runs ---------------------- *)
\* audio timelines over the windows of ElementLists, one step per time unit,
\* each sample on the long sound or on no sound, run for at most MaxCalls
\* operations at the times of Times
ShortAudioSamples(els) ==
  {smp \in [1..Len(els) -> AudioSamplesOfAnyWindow] :
     \A k \in 1..Len(els) :
       /\ smp[k].startTime = TimeStepMs * els[k].startTimeMs
       /\ smp[k].window = TimeStepMs * (els[k].endTimeMs - els[k].startTimeMs)}

\* as in AudioSamples, the window of a sample is not empty
NonEmptyWindows(els) == \A k \in 1..Len(els) : els[k].startTimeMs < els[k].endTimeMs

InitAudioShort ==
  \E els \in {l \in ElementLists : NonEmptyWindows(l)} :
    \E smp \in ShortAudioSamples(els) : InitAudioOf(smp)

\* a short run has room for one more operation
ShortRun == nCalls < MaxCalls

\* the operation just taken is at one of the times of Times
AtShortTime ==
  lastOp'.op \in {"update", "seek"} => lastOp'.arg \in {TimeStepMs * t : t \in Times}

NextAudioShort ==
  \/ ShortRun /\ AudioUpdate /\ AtShortTime
  \/ ShortRun /\ AudioPlay
  \/ ShortRun /\ AudioPause
  \/ ShortRun /\ AudioSeek /\ AtShortTime
  \/ ShortRun /\ AudioRate
  \/ ShortRun /\ AudioVolume
  \/ ShortRun /\ GameDestroy

SpecAudioShort == InitAudioShort /\ [][NextAudioShort]_vars

(* ---------------------------- CursorAutoplay --------------------------- *)
\* cursor_autoplay: MAX_CLICK_DURATION, and MAX_CLICK_PROPORTION as 1 / 2
MaxClickDuration == 50
ClickProportionDivisor == 2

HitKinds == {"circle", "slider", "spinner", "unknown"}

\* a hit object: a Slider or a Spinner has an endTime of its own; "unknown"
\* is a StandardHitObject of none of the three classes
HitObjects ==
  {[kind |-> k, startTime |-> s, endTime |-> e] :
     k \in HitKinds, s \in Times, e \in Times}

HitWellFormed(h) ==
  IF h.kind \in {"slider", "spinner"} THEN h.startTime <= h.endTime
                                       ELSE h.endTime = h.startTime

\* the hit objects of a beatmap, in time order
HitObjectLists ==
  UNION {{s \in [1..n -> {h \in HitObjects : HitWellFormed(h)}] :
            \A k \in 1..(n - 1) : s[k].startTime <= s[k + 1].startTime}
           : n \in 0..MaxElements}

HitLength == Len(hitObjects)
Hit(i) == hitObjects[i + 1]

\* BinarySearch.findIndex(this.hitObjects, (h) => timeMs < h.startTime)
RECURSIVE BisectHit(_, _, _)
BisectHit(l, r, timeMs) ==
  IF 1 + l < r
    THEN LET mid == l + ((r - l) \div 2)
         IN  IF timeMs < Hit(mid).startTime
               THEN BisectHit(l, mid, timeMs)
               ELSE BisectHit(mid, r, timeMs)
    ELSE r

\* a cursor that is never searched for again
GetNextHitObjectIndexCached(timeMs) == nextHitObjectIndex

\* getNextHitObjectIndex, lines 462-473
GetNextHitObjectIndex(timeMs) ==
  LET index == nextHitObjectIndex
  IN  IF index # 0 /\ timeMs >= Hit(index - 1).startTime
        THEN index
        ELSE LET found == BisectHit(-1, HitLength - 1, timeMs)
             IN  IF found >= 0 THEN found ELSE 0

\* getCursorState, lines 364-369: the loop over the started hit objects
RECURSIVE AdvanceHit(_, _)
AdvanceHit(idx, timeMs) ==
  IF idx < HitLength /\ Hit(idx).startTime <= timeMs
    THEN AdvanceHit(idx + 1, timeMs)
    ELSE idx

\* an end boundary that takes an unknown hit object for a Circle, silently
CurrentEndSilent(h) ==
  IF h.kind \in {"slider", "spinner"}
    THEN [endTime |-> h.endTime, warned |-> FALSE]
    ELSE [endTime |-> h.startTime, warned |-> FALSE]

\* getCursorState, lines 379-391: currentEndTime, and whether it warned
CurrentEnd(h) ==
  IF h.kind \in {"slider", "spinner"}
    THEN [endTime |-> h.endTime, warned |-> FALSE]
  ELSE IF h.kind = "circle"
    THEN [endTime |-> h.startTime, warned |-> FALSE]
  ELSE [endTime |-> h.startTime, warned |-> TRUE]

Min(a, b) == IF a < b THEN a ELSE b

\* getCursorState, lines 414-423 and 443: timeMs < clickEnd, with both sides
\* multiplied by the divisor of MAX_CLICK_PROPORTION
BeforeClickEnd(cur, nxt, endTime, timeMs) ==
  IF cur.kind = "slider"
    THEN timeMs < endTime
    ELSE ClickProportionDivisor * (timeMs - endTime)
           < Min(ClickProportionDivisor * MaxClickDuration, nxt.startTime - endTime)

\* getCursorState, lines 371-451, from the index the loop stopped at
CursorStateAt(idx, timeMs) ==
  IF idx = 0
    THEN (IF HitLength = 0
            THEN CursorOutcome("error", "first", Undefined, FALSE, Undefined, FALSE)
            ELSE CursorOutcome("state", "first", Undefined, FALSE, Undefined, FALSE))
    ELSE LET cur == Hit(idx - 1)
             end == CurrentEnd(cur)
         IN  IF timeMs < end.endTime
               THEN CursorOutcome("state",
                      IF cur.kind = "slider" THEN "within slider" ELSE "within",
                      idx - 1, end.warned, end.endTime, TRUE)
             ELSE IF idx < HitLength
               THEN CursorOutcome("state", "between", idx - 1, end.warned, end.endTime,
                      BeforeClickEnd(cur, Hit(idx), end.endTime, timeMs))
             ELSE CursorOutcome("state", "ended", idx - 1, end.warned, end.endTime, FALSE)

\* CursorAutoplay.getCursorState(timeMs)
GetCursorState ==
  /\ nCalls < MaxCalls
  /\ \E timeMs \in Times :
       LET idx == AdvanceHit(GetNextHitObjectIndex(timeMs), timeMs)
       IN  /\ nextHitObjectIndex' = idx
           /\ cursorResult' = CursorStateAt(idx, timeMs)
           /\ callTime' = timeMs
  /\ prevTime' = callTime
  /\ nCalls' = nCalls + 1
  /\ UNCHANGED <<engineVars, callLog, callForward, created, destroyed,
                 bypassed, forwardRun, backwardRun, onScript, activeBefore,
                 cursorBefore, resynced, scanStart, threw, audioVars, tickerAttached,
                 hitObjects, clockVars>>

\* CursorAutoplay constructor
InitCursor ==
  /\ InitEngine(<<>>, FALSE)
  /\ NoAudio
  /\ tickerAttached = FALSE
  /\ hitObjects \in HitObjectLists
  /\ nextHitObjectIndex = 0
  /\ cursorResult = CursorIdle
  /\ NoClock

NextCursor == GetCursorState

SpecCursor == InitCursor /\ [][NextCursor]_vars

\* beatmaps of SearchElements circles, in time order
CircleLists ==
  {s \in [1..SearchElements -> {h \in HitObjects : h.kind = "circle" /\ HitWellFormed(h)}] :
     \A k \in 1..(SearchElements - 1) : s[k].startTime <= s[k + 1].startTime}

\* CursorAutoplay constructor, on a beatmap of circles
InitCursorSearch ==
  /\ InitEngine(<<>>, FALSE)
  /\ NoAudio
  /\ tickerAttached = FALSE
  /\ hitObjects \in CircleLists
  /\ nextHitObjectIndex = 0
  /\ cursorResult = CursorIdle
  /\ NoClock

SpecCursorSearch == InitCursorSearch /\ [][NextCursor]_vars

(* ------------------------- StandardGame clock -------------------------- *)
\* the wall clock of a run stops at this time
MaxWallMs == 3
\* the longest frame, and the longest time without a frame while hidden
MaxFrameMs == 2
\* a storyboard starts at most this long before 0 ms
MaxLeadInMs == 1
\* the latest end of a game
MaxGameEndMs == 2
\* at most this many operations other than frames in a run
MaxGameOps == 4

Clamp(x, lo, hi) == IF x < lo THEN lo ELSE IF x > hi THEN hi ELSE x

\* the voice of the music over dt of wall-clock time: when it reaches the end
\* of the audio it stops and its seek time goes back to 0
AudioAfter(dt) ==
  IF audioState # "playing" THEN [state |-> audioState, seek |-> audioSeekMs]
  ELSE IF audioSeekMs + dt >= audioDurationMs THEN [state |-> "stopped", seek |-> 0]
  ELSE [state |-> "playing", seek |-> audioSeekMs + dt]

\* wall-clock time passes: dt of it, of which the game was paused or not
Elapse(dt) ==
  /\ wallClockMs + dt <= MaxWallMs
  /\ wallClockMs' = wallClockMs + dt

\* StandardGame.getElapsedMs() in a frame of elapsedMS, at ticker speed 1
GetElapsedMs(elapsedMS, now) ==
  IF isPaused THEN [elapsed |-> 0, unfocused |-> unfocusedTimeMs]
  ELSE IF unfocusedTimeMs = Undefined
    THEN [elapsed |-> elapsedMS, unfocused |-> Undefined]
    ELSE [elapsed |-> now - unfocusedTimeMs, unfocused |-> Undefined]

\* StandardGame.tick() in the animation frame that comes elapsedMS after the
\* one before
GameTick ==
  /\ tickerAttached
  /\ ~documentHidden
  /\ \E elapsedMS \in 1..MaxFrameMs :
       LET got   == GetElapsedMs(elapsedMS, wallClockMs + elapsedMS)
           clock == timeElapsedMs + got.elapsed
           audio == AudioAfter(elapsedMS)
           start == ~isPaused /\ ~isAudioStarted /\ clock >= 0
       IN  /\ Elapse(elapsedMS)
           /\ timeElapsedMs' = clock
           /\ unfocusedTimeMs' = got.unfocused
           /\ componentTimeMs' = (IF lastTimeElapsedMs # clock THEN clock
                                                               ELSE componentTimeMs)
           /\ componentOp' = (IF lastTimeElapsedMs # clock THEN "update"
                                                           ELSE componentOp)
           /\ isAudioStarted' = (isAudioStarted \/ start)
           /\ audioState' = (IF start THEN "playing" ELSE audio.state)
           /\ audioSeekMs' = audio.seek
           /\ lastTimeElapsedMs' = clock
           /\ tickGain' = got.elapsed
           /\ tickAllowance' = unpausedWallMs + (IF isPaused THEN 0 ELSE elapsedMS)
  /\ unpausedWallMs' = 0
  /\ gameOp' = "tick"
  /\ clockBefore' = timeElapsedMs
  /\ pausedBefore' = isPaused
  /\ UNCHANGED <<documentHidden, startTimeMs, endTimeMs, isPaused, audioDurationMs,
                 pendingSeeks, nGameOps>>
  /\ UNCHANGED <<engineVars, historyVars, audioVars, gameVars>>

\* the tab is hidden and no frame is run for dt of wall-clock time
Away ==
  /\ documentHidden
  /\ \E dt \in 1..MaxFrameMs :
       /\ Elapse(dt)
       /\ audioState' = AudioAfter(dt).state
       /\ audioSeekMs' = AudioAfter(dt).seek
       /\ unpausedWallMs' = unpausedWallMs + (IF isPaused THEN 0 ELSE dt)
  /\ UNCHANGED <<documentHidden, startTimeMs, endTimeMs, timeElapsedMs,
                 lastTimeElapsedMs, unfocusedTimeMs, isPaused, isAudioStarted,
                 audioDurationMs, pendingSeeks, componentTimeMs, componentOp, gameOp,
                 nGameOps, clockBefore, pausedBefore, tickGain, tickAllowance>>
  /\ UNCHANGED <<engineVars, historyVars, audioVars, gameVars>>

\* the bookkeeping of an operation that takes no wall-clock time
GameOp(op) ==
  /\ nGameOps < MaxGameOps
  /\ nGameOps' = nGameOps + 1
  /\ gameOp' = op
  /\ clockBefore' = timeElapsedMs
  /\ pausedBefore' = isPaused
  /\ UNCHANGED <<wallClockMs, startTimeMs, endTimeMs, audioDurationMs,
                 lastTimeElapsedMs, tickGain, tickAllowance, unpausedWallMs>>
  /\ UNCHANGED <<engineVars, historyVars, audioVars, gameVars>>

\* the visibilitychange listener of the constructor; the event comes when
\* the tab is hidden and when it is shown again
VisibilityChange ==
  /\ GameOp("visibilitychange")
  /\ documentHidden' = ~documentHidden
  /\ unfocusedTimeMs' = (IF ~isPaused /\ unfocusedTimeMs = Undefined
                           THEN wallClockMs ELSE unfocusedTimeMs)
  /\ UNCHANGED <<timeElapsedMs, isPaused, isAudioStarted, audioState, audioSeekMs,
                 pendingSeeks, componentTimeMs, componentOp>>

\* StandardGame.seek(timeMs) from clock, as a function of the state
SeekResult(timeMs) ==
  LET clamped == Clamp(timeMs, startTimeMs, endTimeMs)
      beforeAudioStart == clamped < 0
      afterAudioEnd == clamped >= audioDurationMs
  IN  IF beforeAudioStart \/ afterAudioEnd
        THEN [clock |-> clamped, started |-> afterAudioEnd,
              state |-> "stopped", seek |-> 0]
        ELSE [clock |-> clamped, started |-> audioSeekMs > 0,
              state |-> audioState, seek |-> clamped]

SeekTo(timeMs) ==
  LET res == SeekResult(timeMs)
  IN  /\ timeElapsedMs' = res.clock
      /\ isAudioStarted' = res.started
      /\ audioState' = res.state
      /\ audioSeekMs' = res.seek
      /\ componentTimeMs' = res.clock
      /\ componentOp' = "seek"

\* StandardGame.seek(timeMs)
GameSeek ==
  /\ GameOp("seek")
  /\ \E timeMs \in (-MaxLeadInMs - 1)..(MaxGameEndMs + 1) : SeekTo(timeMs)
  /\ UNCHANGED <<documentHidden, unfocusedTimeMs, isPaused, pendingSeeks>>

\* the callback of the setTimeout of play(): seek(this.timeElapsedMs)
DeferredSeek ==
  /\ pendingSeeks > 0
  /\ pendingSeeks' = pendingSeeks - 1
  /\ SeekTo(timeElapsedMs)
  /\ gameOp' = "deferred seek"
  /\ clockBefore' = timeElapsedMs
  /\ pausedBefore' = isPaused
  /\ UNCHANGED <<wallClockMs, documentHidden, startTimeMs, endTimeMs,
                 lastTimeElapsedMs, unfocusedTimeMs, isPaused, audioDurationMs,
                 nGameOps, tickGain, tickAllowance, unpausedWallMs>>
  /\ UNCHANGED <<engineVars, historyVars, audioVars, gameVars>>

\* StandardGame.pause()
GamePause ==
  /\ GameOp("pause")
  /\ componentOp' = "pause"
  /\ audioState' = (IF audioState = "playing" THEN "paused" ELSE audioState)
  /\ isPaused' = TRUE
  /\ UNCHANGED <<documentHidden, timeElapsedMs, unfocusedTimeMs, isAudioStarted,
                 audioSeekMs, pendingSeeks, componentTimeMs>>

\* a play() without the repeat of lines 272-275
PlayClockNoRepeat(clock) == clock

\* the clock after play(), lines 272-275
PlayClock(clock) == IF clock >= endTimeMs THEN startTimeMs ELSE clock

\* StandardGame.play()
GamePlay ==
  /\ GameOp("play")
  /\ componentOp' = "play"
  /\ timeElapsedMs' = PlayClock(timeElapsedMs)
  /\ isAudioStarted' = (isAudioStarted \/ audioState # "playing")
  /\ audioState' = "playing"
  /\ isPaused' = FALSE
  /\ pendingSeeks' = pendingSeeks + 1
  /\ UNCHANGED <<documentHidden, unfocusedTimeMs, audioSeekMs, componentTimeMs>>

\* StandardGame constructor, which ends with seek()
InitGame ==
  /\ InitEngine(<<>>, FALSE)
  /\ NoAudio
  /\ NoCursor
  /\ tickerAttached = TRUE
  /\ wallClockMs = 0
  /\ documentHidden = FALSE
  /\ startTimeMs \in (-MaxLeadInMs)..0
  /\ endTimeMs \in 1..MaxGameEndMs
  /\ audioDurationMs \in 1..endTimeMs
  /\ timeElapsedMs = startTimeMs
  /\ lastTimeElapsedMs = Undefined
  /\ unfocusedTimeMs = Undefined
  /\ isPaused = FALSE
  /\ isAudioStarted = FALSE
  /\ audioState = "stopped"
  /\ audioSeekMs = 0
  /\ pendingSeeks = 0
  /\ componentTimeMs = startTimeMs
  /\ componentOp = "seek"
  /\ gameOp = "new"
  /\ nGameOps = 0
  /\ clockBefore = Undefined
  /\ pausedBefore = FALSE
  /\ tickGain = 0
  /\ tickAllowance = 0
  /\ unpausedWallMs = 0

NextGame ==
  \/ GameTick
  \/ Away
  \/ VisibilityChange
  \/ GameSeek
  \/ DeferredSeek
  \/ GamePause
  \/ GamePlay

SpecGame == InitGame /\ [][NextGame]_vars

(* ------------------------------ claims --------------------------------- *)
\* a descriptor the scan passed without ever building it
SkipBypassed(i) == i \in bypassed /\ created[i] = 0

\* C1: in a forward run with non-decreasing times every descriptor that is
\* not skip-bypassed has been activated exactly once as soon as a call had
\* timeMs >= startTimeMs (and not before), and deactivated exactly once as
\* soon as a call had timeMs >= endTimeMs (and not before).
C1_ExactlyOnceForward ==
  (forwardRun /\ nCalls > 0) =>
    \A i \in Indices : ~SkipBypassed(i) =>
      /\ created[i] = (IF callTime >= StartOf(i) THEN 1 ELSE 0)
      /\ destroyed[i] = (IF callTime >= EndOf(i) THEN 1 ELSE 0)

\* C2: after any update(T) the active set is exactly the set of descriptors
\* whose window [startTimeMs, endTimeMs) contains T, less the descriptors that
\* were skip-bypassed (never activated, already elapsed).
C2_ActiveSetIsContainment ==
  nCalls > 0 =>
    Range(activeElements) =
      {i \in Indices : Contains(i, callTime)}
        \ {i \in Indices : SkipBypassed(i) /\ callTime >= EndOf(i)}

\* C3: with skip-bypass enabled, an update to T builds no payload for a
\* descriptor with endTimeMs <= T that was never active before the call.
C3_NoBuildForElapsed ==
  (allowSkippingElements /\ nCalls > 0) =>
    \A i \in Indices :
      (EndOf(i) <= callTime /\ created[i] = CountOf(callLog, "create", i))
        => CountOf(callLog, "create", i) = 0

\* a seek straight to T across two elapsed, never active descriptors, one
\* of them passed by the scan of that call
C3_Witness ==
  /\ allowSkippingElements /\ nCalls = 1
  /\ \E i, j \in Indices :
       /\ i # j
       /\ EndOf(i) <= callTime /\ EndOf(j) <= callTime
       /\ i \in bypassed /\ created[i] = 0 /\ created[j] = 0

\* C5: in a backward run from the largest endTimeMs with non-increasing times,
\* every descriptor has been activated once when the clock is inside its
\* window, and activated and deactivated once when the clock is before it.
C5_BackwardMirror ==
  (backwardRun /\ nCalls > 0) =>
    \A i \in Indices :
      /\ (StartOf(i) < callTime /\ callTime < EndOf(i))
           => (created[i] = 1 /\ destroyed[i] = 0)
      /\ callTime < StartOf(i) => (created[i] = 1 /\ destroyed[i] = 1)

\* the on-activate and on-deactivate invocations of the last call
Lifecycle == {callLog[k] : k \in {m \in 1..Len(callLog) : callLog[m].op # "update"}}

ScenarioExpected ==
  << [events |-> {Event("create", 0)}, active |-> {0}],
     [events |-> {Event("create", 1)}, active |-> {0, 1}],
     [events |-> {Event("destroy", 0)}, active |-> {1}],
     [events |-> {Event("destroy", 1)}, active |-> {}],
     [events |-> {Event("create", 2)}, active |-> {2}],
     [events |-> {Event("destroy", 2), Event("create", 0)}, active |-> {0}] >>

\* C4: on A[0,1000) B[500,1500) C[2000,3000) the calls update(0), update(600),
\* update(1000), update(1600), update(2000), update(300, backward) activate A;
\* activate B (A still active); deactivate A; deactivate B; activate C;
\* deactivate C and reactivate A (B not activated).
C4_ConcreteScenario ==
  (onScript /\ nCalls > 0) =>
    /\ Lifecycle = ScenarioExpected[nCalls].events
    /\ Range(activeElements) = ScenarioExpected[nCalls].active

ZeroDuration(i) == StartOf(i) = EndOf(i)

\* the last call moved the clock forward across startTimeMs of i
CrossedForward(i) ==
  /\ nCalls > 1 /\ callForward
  /\ prevTime < StartOf(i) /\ callTime > StartOf(i)

C9_ActivationsFirst ==
  \A k, m \in 1..Len(callLog) :
    (k < m /\ callLog[m].op = "create") => callLog[k].op = "create"

\* a call that activates one descriptor and then deactivates an entry that
\* was active before the call
C9_Witness ==
  \E k, m \in 1..Len(callLog) :
    /\ callLog[k].op = "create"
    /\ callLog[m].op = "destroy"
    /\ CountOf(callLog, "create", callLog[m].index) = 0

\* the position the claims recompute, and the sample's own playable duration
RelativePosition(i, timeMs) ==
  (timeMs - SampleOf(i).startTime) + (timeMs - audioLastTimeMs)

InOwnDuration(i, timeMs) ==
  /\ RelativePosition(i, timeMs) >= 0
  /\ RelativePosition(i, timeMs) < SoundDurationMs(SampleOf(i).filePath)

ActiveVoices == Range(Sounding(activeElements))

\* C6: seek(t) issues no seek command to an active in-bounds voice when
\* |t - lastObservedTime| <= 20, and a seek command to the recomputed
\* position when |t - lastObservedTime| > 20.
C6_DriftTolerance ==
  lastOp.op = "seek" =>
    \A i \in ActiveVoices : InOwnDuration(i, lastOp.arg) =>
      IF Abs(lastOp.arg - audioLastTimeMs) <= SeekToleranceMs
        THEN Issued(voiceLog, "seek", i) = 0
        ELSE \E k \in 1..Len(voiceLog) :
               voiceLog[k] = Cmd("seek", i, RelativePosition(i, lastOp.arg))

\* C7: seek(t) hard-stops an active voice that is playing exactly when the
\* recomputed position is outside the sample's own playable duration.
C7_StopOutsideOwnDuration ==
  lastOp.op = "seek" =>
    \A i \in ActiveVoices \cap wasPlaying :
      (Issued(voiceLog, "stop", i) > 0) <=> ~InOwnDuration(i, lastOp.arg)

\* C10: a stopped voice plays again only through a new activation (a new
\* build of the payload), never through a broadcast.
C10_StoppedIsTerminal ==
  [][\A i \in Indices :
       (voiceState[i + 1] = "stopped" /\ voiceState'[i + 1] = "playing")
         => created'[i] > created[i]]_vars

\* C11: a Timeline never holds a descriptor with endTimeMs < startTimeMs
\* (construction from such a list fails), so no update call ever runs on one.
C11_MalformedRejected ==
  nCalls > 0 => \A i \in Indices : WellFormed(Elem(i))

\* C12: after volume(v) the volume of every active voice is its own entry's
\* sampleVolume times v, also when several active entries share one sound.
C12_VolumePerEntry ==
  lastOp.op = "volume" =>
    \A i \in ActiveVoices :
      voiceVolume[i + 1] = SampleOf(i).volume * lastOp.arg

SameWindow(i, j) == StartOf(i) = StartOf(j) /\ EndOf(i) = EndOf(j)

\* C13: an entry whose payload has no sound never has a voice and never gets
\* a voice command, from an update or from a broadcast; it is tracked by the
\* engine like an entry with a sound: it is in the active set when the call
\* that activated it left the clock inside its window, it is out of the
\* active set when the clock is outside its window, each removal invoked
\* on-deactivate, and it is active exactly when an entry with the same window
\* that has a sound is active.
C13_SilentEntryTimingOnly ==
  \A i \in Indices : ~HasSound(i) =>
    /\ voiceState[i + 1] = "none"
    /\ \A k \in 1..Len(voiceLog) : voiceLog[k].index # i
    /\ (CountOf(callLog, "create", i) > 0 /\ Contains(i, callTime))
         => i \in Range(activeElements)
    /\ i \in Range(activeElements) => Contains(i, callTime)
    /\ created[i] - destroyed[i] = (IF i \in Range(activeElements) THEN 1 ELSE 0)
    /\ \A j \in Indices : (HasSound(j) /\ SameWindow(i, j)) =>
         /\ (i \in Range(activeElements)) <=> (j \in Range(activeElements))
         /\ created[i] = created[j]
         /\ destroyed[i] = destroyed[j]

\* a broadcast that reached the voice of an active entry while an entry
\* without a sound, with the same window, was active too
C13_Witness ==
  \E i, j \in Indices :
    /\ ~HasSound(i) /\ HasSound(j) /\ SameWindow(i, j)
    /\ i \in Range(activeElements) /\ j \in Range(activeElements)
    /\ lastOp.op \in {"play", "pause", "seek", "rate", "volume"}
    /\ \E k \in 1..Len(voiceLog) : voiceLog[k].index = j

\* the last getCursorState call met a current hit object that is neither a
\* Slider, a Spinner nor a Circle
MetUnknown ==
  /\ cursorResult.outcome # "none"
  /\ cursorResult.current # Undefined
  /\ Hit(cursorResult.current).kind = "unknown"

\* C14: a getCursorState call whose current hit object is of an unknown
\* variant warns, takes the object's startTime as its end boundary and
\* returns a cursor state; it does not throw.
C14_UnknownVariantRecovers ==
  MetUnknown =>
    /\ cursorResult.outcome = "state"
    /\ cursorResult.warned
    /\ cursorResult.endTime = Hit(cursorResult.current).startTime

\* an unknown current hit object with a next hit object to travel to
C14_Witness ==
  /\ MetUnknown
  /\ cursorResult.outcome = "state"
  /\ cursorResult.branch = "between"
  /\ cursorResult.warned

\* C15: once the game that owns a timeline is destroyed, the active set is
\* empty, on-deactivate has been invoked for every activation, and no voice
\* of the timeline is playing.
C15_TeardownDeactivates ==
  lastOp.op = "destroy" =>
    /\ activeElements = <<>>
    /\ \A i \in Indices : destroyed[i] = created[i]
    /\ Playing = {}

\* the payloads of index i that were activated and not yet deactivated
Live(i) == created[i] - destroyed[i]

\* C16: every index has at most one live payload, and has one exactly when
\* it is in the active set, with skip-bypass disabled and enabled.
C16_OneLivePayload ==
  \A i \in Indices :
    /\ Live(i) \in {0, 1}
    /\ Live(i) = 1 <=> i \in Range(activeElements)

\* the indices the scan of the last update call had at its cursor
ScannedLast ==
  IF nCalls = 0 THEN {}
  ELSE IF callForward THEN scanStart..(nextElementIndex - 1)
  ELSE (nextElementIndex + 1)..scanStart

PassedOver(i) == i \in ScannedLast /\ CountOf(callLog, "create", i) = 0
Activated(i) == i \in ScannedLast /\ CountOf(callLog, "create", i) = 1

\* C17 (as claimed): with skip-bypass enabled the scan passes over the
\* descriptor at its cursor exactly when the window has elapsed and the
\* descriptor is not in the active set, and activates it in every other case.
C17_BypassElapsedAndInactive ==
  allowSkippingElements =>
    \A i \in ScannedLast :
      /\ PassedOver(i) <=> (EndOf(i) <= callTime /\ i \notin activeBefore)
      /\ PassedOver(i) \/ Activated(i)

\* C17 (amended): with skip-bypass enabled the scan passes over the
\* descriptor at its cursor exactly when the window has elapsed or the
\* descriptor is already in the active set, and activates it (once) when the
\* window has not elapsed and the descriptor is not active.
C17_BypassElapsedOrActive ==
  allowSkippingElements =>
    \A i \in ScannedLast :
      /\ PassedOver(i) <=> (EndOf(i) <= callTime \/ i \in activeBefore)
      /\ PassedOver(i) \/ Activated(i)

\* the scan passed over an active descriptor whose window has not elapsed,
\* and in the same run activated one
C17_Witness ==
  /\ allowSkippingElements
  /\ \E i \in ScannedLast :
       PassedOver(i) /\ i \in activeBefore /\ EndOf(i) > callTime /\ created[i] = 1

\* since the call before, the time moved against the declared direction
MovedOpposite ==
  /\ nCalls > 1
  /\ IF callForward THEN callTime < prevTime ELSE callTime > prevTime

\* the descriptor at cursor c does not bracket the time of the last call
NotBracketing(c) ==
  /\ Exists(c)
  /\ IF callForward THEN callTime >= EndOf(c) ELSE callTime <= StartOf(c)

\* C18 (as claimed): update runs the binary search when the time moved
\* against the direction, when the descriptor at the cursor no longer
\* brackets the time, and on the first call; when none of the three holds and
\* the cursor points at a descriptor, the scan starts at the cursor as it was.
C18_ResyncCases ==
  nCalls > 0 =>
    /\ (MovedOpposite \/ NotBracketing(cursorBefore) \/ nCalls = 1) => resynced
    /\ (~MovedOpposite /\ ~NotBracketing(cursorBefore) /\ nCalls # 1
          /\ Exists(cursorBefore))
         => (~resynced /\ scanStart = cursorBefore)

\* the cursor of the last call before its staleness test: on the first call
\* index 0 (forward) or the last index (backward)
CursorTested ==
  IF cursorBefore = Undefined
    THEN (IF callForward THEN 0 ELSE Length - 1)
    ELSE cursorBefore

\* C18 (amended): update runs the binary search exactly when the time moved
\* against the direction since the last call, or the descriptor at the
\* cursor no longer brackets the time, or the cursor points at no descriptor;
\* the first call sets the cursor to index 0 (forward) or the last index
\* (backward) and is then treated like any other.  Without a binary search
\* the scan starts at the cursor as it was.
C18_ResyncExactly ==
  nCalls > 0 =>
    /\ resynced <=> (MovedOpposite \/ NotBracketing(CursorTested)
                      \/ ~Exists(CursorTested))
    /\ ~resynced => scanStart = CursorTested

\* a first update call that starts its scan at the default cursor, without
\* a binary search, and activates a descriptor
C18_Witness ==
  /\ nCalls = 1
  /\ ~resynced
  /\ \E i \in Indices : CountOf(callLog, "create", i) > 0

\* the indices whose descriptor satisfies the search predicate of the last call
Satisfying == {i \in Indices : SearchPredicate(i, callTime, callForward)}

Lowest(S) == CHOOSE i \in S : \A j \in S : i <= j

\* C19: after a resynchronization the scan starts at the lowest index whose
\* descriptor satisfies the predicate of the direction; when there is none, a
\* forward call starts at index 0 and a backward call has no index to start
\* at and activates nothing.
C19_ResyncFindsLowest ==
  (nCalls > 0 /\ resynced) =>
    IF Satisfying # {} THEN scanStart = Lowest(Satisfying)
    ELSE IF callForward THEN scanStart = 0
    ELSE /\ scanStart \notin Indices
         /\ \A i \in Indices : CountOf(callLog, "create", i) = 0

\* in log, the first on-deactivate of index i comes after its on-activate
DestroyedAfterCreate(log, i) ==
  \E k, m \in 1..Len(log) :
    k < m /\ log[k] = Event("create", i) /\ log[m] = Event("destroy", i)

\* C20: with skip-bypass disabled every descriptor the scan had at its
\* cursor was built and got on-activate in that call, also when its window
\* had elapsed; an elapsed one then got on-deactivate in the same call, no
\* on-tick, and is not left in the active set.
C20_AlwaysMaterialize ==
  ~allowSkippingElements =>
    \A i \in ScannedLast :
      /\ CountOf(callLog, "create", i) = 1
      /\ EndOf(i) <= callTime =>
           /\ CountOf(callLog, "destroy", i) = 1
           /\ DestroyedAfterCreate(callLog, i)
           /\ CountOf(callLog, "update", i) = 0
           /\ i \notin Range(activeElements)

\* a call that built and destroyed a descriptor of positive duration that
\* was not active and had elapsed
C20_Witness ==
  /\ ~allowSkippingElements
  /\ \E i \in ScannedLast :
       /\ StartOf(i) < EndOf(i) /\ EndOf(i) <= callTime
       /\ i \notin activeBefore
       /\ DestroyedAfterCreate(callLog, i)

\* the cursors the last call tested in shouldAddNextElement
CursorsTested ==
  IF nCalls = 0 THEN {}
  ELSE IF callForward THEN scanStart..nextElementIndex
  ELSE nextElementIndex..scanStart

\* C21: no update call throws: every cursor that passes the existence test
\* of shouldAddNextElement, and so is dereferenced, is an index of the array,
\* and every descriptor the scan body handled is one of the array.
C21_UpdateIsTotal ==
  /\ ~threw
  /\ \A c \in CursorsTested : ~Throws(c, callForward)
  /\ ScannedLast \subseteq Indices

\* a forward call whose cursor had run off the front of the array in a
\* backward call, and which activates a descriptor
C21_Witness ==
  /\ nCalls > 1
  /\ cursorBefore = -1
  /\ callForward
  /\ \E i \in Indices : CountOf(callLog, "create", i) > 0

\* C22: play() is a repeat at the end of playback: a clock at or past
\* endTimeMs goes back to startTimeMs, a clock before endTimeMs is left as it
\* is, and the game is not paused after play() in either case.
C22_PlayRepeatsAtEnd ==
  gameOp = "play" =>
    /\ clockBefore >= endTimeMs => timeElapsedMs = startTimeMs
    /\ clockBefore < endTimeMs => timeElapsedMs = clockBefore
    /\ ~isPaused

\* play() on a paused game whose clock ran past endTimeMs
C22_Witness ==
  /\ gameOp = "play"
  /\ pausedBefore
  /\ clockBefore > endTimeMs
  /\ timeElapsedMs = startTimeMs
  /\ startTimeMs < 0

\* C25: while the game is paused only seek() changes its clock, every tick
\* adds 0, and no tick adds more to the clock than the wall-clock time that
\* passed while the game was not paused, so paused time is never added after
\* play() resumes the game.
C25_PausedTimeNeverCounted ==
  /\ (pausedBefore /\ gameOp \in {"tick", "pause", "visibilitychange"})
       => timeElapsedMs = clockBefore
  /\ gameOp = "tick" => tickGain <= tickAllowance

\* C23: after any update(T, direction) every entry left in the active set
\* has a window that contains T: startTimeMs <= T < endTimeMs.
C23_ActiveContainsTime ==
  nCalls > 0 =>
    \A i \in Range(activeElements) : StartOf(i) <= callTime /\ callTime < EndOf(i)

\* a call that deactivated an entry of an earlier call, whose window does not
\* contain the new time, and left another entry active
C23_Witness ==
  /\ nCalls > 1
  /\ \E i \in activeBefore : CountOf(callLog, "destroy", i) > 0
  /\ Range(activeElements) # {}

\* C24: after pause() and until the next play(), no voice of an active entry
\* is playing, the voices of the entries that an update() in between
\* activates included.
C24_PausedStaysSilent ==
  pauseHeld => \A i \in Range(activeElements) : voiceState[i + 1] # "playing"

\* the hit objects that have started at the time of the last call
StartedHits == {i \in 0..(HitLength - 1) : Hit(i).startTime <= callTime}

\* C26: on a non-empty beatmap, after each getCursorState(t) the cursor
\* nextHitObjectIndex is the number of hit objects with startTime <= t,
\* whatever calls came before.
C26_CursorIsStartedCount ==
  (nCalls > 0 /\ HitLength > 0) => nextHitObjectIndex = Cardinality(StartedHits)

\* a backward seek that the binary search resolves to an index inside the
\* beatmap
C26_Witness ==
  /\ nCalls > 1
  /\ callTime < prevTime
  /\ nextHitObjectIndex \in 1..(HitLength - 1)
  /\ nextHitObjectIndex = Cardinality(StartedHits)

\* the step is one of the broadcasts play, pause, seek, rate and volume
BroadcastStep ==
  /\ nCalls' = nCalls + 1
  /\ lastOp'.op \in {"play", "pause", "seek", "rate", "volume"}

\* C27: play(), pause(), seek(t), rate(r) and volume(v) leave the active
\* entries, the scan cursor and the last observed times as they were, so only
\* update() changes the time against which seek() measures its jump.
C27_BroadcastsKeepEngine ==
  [][BroadcastStep =>
       /\ activeElements' = activeElements
       /\ nextElementIndex' = nextElementIndex
       /\ lastTimeMs' = lastTimeMs
       /\ audioLastTimeMs' = audioLastTimeMs]_vars

\* a seek with an active entry to a time that is not the time of the last
\* update
C27_Witness ==
  /\ lastOp.op = "seek"
  /\ Range(activeElements) # {}
  /\ lastOp.arg # callTime
  /\ audioLastTimeMs = callTime

=============================================================================
